---- MODULE Spec2Model ----
(***************************************************************************)
(* Model of the Google Maps scraper content script (src/content.js):       *)
(* the GoogleMapsScraper singleton, its traversal loop start(), the card   *)
(* scraper scrapeCard() and the chrome.runtime.onMessage command handler.  *)
(*                                                                         *)
(* JavaScript runs every callback to completion, so one action of the      *)
(* model is one task of the event loop: a message handler, or the code of  *)
(* an async function between two awaits (the continuation run when a timer *)
(* fires).  The host page is the environment: every task observes the      *)
(* document as it is at that moment, a record built by Dom.                *)
(***************************************************************************)
EXTENDS Integers, Sequences, FiniteSets, TLC

\* ---------------------------------------------------------------- bounds
\* most entries the feed ever shows
MaxCards == 2
\* most commands the popup sends in one behaviour
MaxCommands == 3
\* most times the host page changes the number of visible entries
MaxFeedChanges == 1
\* most polls of one detector wait that are followed after its timeout
MaxLatePolls == 2

\* ------------------------------------------------------ program constants
MAX_SCROLL_FAILS == 3
DETAIL_TIMEOUT == 3000
interval == 100

\* The start() invocations that can be suspended at once: the handler refuses a
\* start while isRunning, so each one after the first needs a stop and a start.
Loops == 1..((MaxCommands + 1) \div 2)

\* ------------------------------------------------------------ host page
\* Texts the detail view's heading can show, and aria-labels of the main region.
Titles == {"", "Results", "Lost and found", "P", "Q"}
Labels == {"", "Q"}
Placeholders == {"Results", "Google Maps"}
\* text.includes("found"): some five characters of the text spell it.
IncludesFound(text) ==
    \E k \in 1..(Len(text) - 4) : SubSeq(text, k, k + 4) = "found"

PlaceNames == <<"A", "B", "C", "D">>
\* The link of the k-th entry of the feed: a URL is the sequence of its parts.
\* Entries 1 and 2 are the same place under two query strings, and so on.
Href(k) ==
    <<"/maps/place/", PlaceNames[(k + 1) \div 2], "?",
      IF k % 2 = 1 THEN "hl=en" ELSE "hl=fr">>

\* What one task sees of the document: whether the feed container exists, the
\* number of place links in it, the detail view's heading text and main-region
\* aria-label, whether an action button, tab strip or hotel header is present,
\* and whether the end-of-results text is shown.
Dom(feed, count, title, label, markers, end) ==
    [feed |-> feed, count |-> count, title |-> title, label |-> label,
     markers |-> markers, end |-> end]

\* The heading/aria-label pairs the detail view is drawn from.
Panels ==
    {<<t, "">> : t \in Titles} \cup {<<"", lb>> : lb \in Labels}

\* The part of the document a task does not read is left blank in its view.
Blank(c) == Dom(TRUE, c, "", "", FALSE, FALSE)

\* A task that reads only the detail view, with n entries visible.
PanelView(n) == {Dom(TRUE, n, v[1], v[2], FALSE, FALSE) : v \in Panels}

\* The same with the markers waitForDetailPanel looks for.
DetailView(n) == {Dom(TRUE, n, t, "", m, FALSE) : t \in Titles, m \in BOOLEAN}

\* The visible-entry counts a task that reads the feed may find.
FeedCounts(n, changes) == IF changes > 0 THEN 0..MaxCards ELSE {n}

\* The views of a task of the loop that finds c entries, by the await it ends
\* at with a blank view: it reads the detail view when it clicks an entry
\* ("detail"), the end-of-results text when the for loop falls through
\* ("scroll"), and neither when it leaves before.
ViewsEndingAt(pc0, c) ==
    IF pc0 = "detail" THEN PanelView(c)
    ELSE IF pc0 = "scroll" THEN {Dom(TRUE, c, "", "", FALSE, e) : e \in BOOLEAN}
    ELSE {Blank(c)}

VARIABLES
    scrapedData,      \* this.scrapedData: the Record list
    scrapedUrls,      \* this.scrapedUrls: the Dedup Set
    isRunning,        \* this.isRunning
    loop,             \* per start() invocation: where it is suspended and its locals
    visible,          \* number of place links the feed shows (document state)
    out,              \* what the last task emitted: notifications, responses, clicks, logs
    commandsLeft,     \* commands the popup may still send
    feedChangesLeft,  \* changes of the visible-entry count still to come
    lastTask,         \* whose task ran last: an invocation's, or 0 for a handler's
    seen              \* the input of the last task (history, see Unread)

vars == <<scrapedData, scrapedUrls, isRunning, loop, visible, out,
          commandsLeft, feedChangesLeft, lastTask, seen>>

\* History of the last task's input, kept for the properties: command is
\* request.action when the task was the message listener ("" for a timer's);
\* feed is what start() found at line 450 ("present", "absent", or "threw"
\* when the query threw; "unread" when the task ran no start() that far);
\* title and label are the detail view as it was when the task resumed
\* scrapeCard after wait(500), threw whether that code threw, and loaded what
\* the detector wait of that scrape had resolved to.
Unread ==
    [command |-> "", feed |-> "unread", title |-> "", label |-> "",
     threw |-> FALSE, loaded |-> FALSE]

\* The listener (line 605) handled a message with this action.
Handled(action) == [Unread EXCEPT !.command = action]

\* ------------------------------------------------------------- emissions
Ev(action, count, message, url, by) ==
    [action |-> action, count |-> count, message |-> message, url |-> url, by |-> by]

\* chrome.runtime.sendMessage({action: 'updateCount', count: this.scrapedData.length})
sendCountBefore(data, p) == Ev("updateCount", Len(data) - 1, "", <<>>, p)
sendCount(data, p) == Ev("updateCount", Len(data), "", <<>>, p)
sendProgress(message, n, p) == Ev("updateProgress", n, message, <<>>, p)
sendCompleteStale(data, p) == Ev("scrapingComplete", Len(data) - 1, "", <<>>, p)
sendComplete(data, p) == Ev("scrapingComplete", Len(data), "", <<>>, p)
sendError(message, p) == Ev("scrapingError", 0, message, <<>>, p)
log(message, p) == Ev("log", 0, message, <<>>, p)
\* A log line that interpolates the number of Records.
logTotal(message, data, p) == Ev("log", Len(data), message, <<>>, p)
\* A log line that interpolates the name it is about.
logName(message, name, p) == Ev("log", 0, message, name, p)
click(k, url, p) == Ev("click", k, "", url, p)
scrollToBottom(p) == Ev("scroll", 0, "", <<>>, p)
sendResponse(status, n) == Ev("response", n, status, <<>>, 0)
\* sendResponse({isRunning: ..., count: ...}) (lines 627-630).
sendStatus(running, n) ==
    Ev("response", n, IF running THEN "isRunning: true" ELSE "isRunning: false",
       <<>>, 0)

\* --------------------------------------------------------- pure helpers
RECURSIVE BeforeQuery(_)
BeforeQuery(url) ==
    IF url = <<>> \/ Head(url) = "?" THEN <<>>
    ELSE <<Head(url)>> \o BeforeQuery(Tail(url))

\* url.split('?')[0]
getUniqueUrl(url) == IF url = <<>> THEN <<>> ELSE BeforeQuery(url)

getCards(d) == IF ~d.feed THEN <<>> ELSE [k \in 1..d.count |-> Href(k)]

extractName(d) ==
    IF d.title # "" /\ d.title \notin Placeholders /\ ~IncludesFound(d.title)
    THEN d.title
    ELSE IF d.label # "" /\ d.label \notin Placeholders THEN d.label ELSE ""

extractAllData(d) == [name |-> extractName(d)]

hasReachedEnd(d) == d.end

\* One tick of waitForDetailPanel's setInterval callback, elapsed already
\* advanced: "true"/"false" when the promise resolves, "pending" otherwise.
PollOutcome(d, previousName, elapsed) ==
    LET detailH1 == d.title # "" /\ d.title \notin Placeholders /\ d.title # previousName
    IN  IF detailH1 /\ d.markers THEN "true"
        ELSE IF elapsed >= DETAIL_TIMEOUT THEN (IF detailH1 THEN "true" ELSE "false")
        ELSE "pending"

Min(S) == CHOOSE x \in S : \A y \in S : x <= y

\* this.scrapedUrls.has(uniqueUrl) (lines 368 and 484).
hasNever(urls, uniqueUrl) == FALSE
has(urls, uniqueUrl) == uniqueUrl \in urls

\* The for loop's `continue` over entries whose key is in the Dedup Set: the
\* first index at or after `from` (0-based) that is not skipped, or cards.length.
SkipTo(from, cards, urls) ==
    LET cand == {k \in from..(Len(cards) - 1) :
                   ~has(urls, getUniqueUrl(cards[k + 1]))}
    IN  IF cand = {} THEN Len(cards) ELSE Min(cand)

\* ------------------------------------------------------- loop locals
\* pc: "idle" (not running), or the await the invocation is suspended at:
\*   "detail" await waitForDetailPanel, "settle" await wait(500),
\*   "clickDelay" await wait(CLICK_DELAY), "scroll" await wait(SCROLL_WAIT).
\* previousName and loaded are the locals of scrapeCard, kept until it returns.
\* History fields (not program state): stopLen/stopPc record the Record list
\* length and the position at the first stop() issued while the loop was in
\* flight (-1/"" if none); committed is whether any Record was committed since
\* the loop's current cycle began; stalls counts the consecutive cycles that
\* ended in a scroll with no growth and no commit; cursorBefore is the cursor
\* the current cycle found, before its shrink check; threw is whether a run of
\* the detector's interval callback threw during the scrape in flight.
Idle ==
    [pc |-> "idle", cards |-> <<>>, i |-> 0, lastProcessedIndex |-> 0,
     consecutiveScrollFails |-> 0, newDataThisRound |-> 0, beforeCount |-> 0,
     previousName |-> "", loaded |-> FALSE,
     stopLen |-> -1, stopPc |-> "", committed |-> FALSE, stalls |-> 0,
     cursorBefore |-> 0, threw |-> FALSE]

\* The element of a singleton: The({f(v) : v \in {e}}) is f(e) with the
\* local e computed once.
The(S) == CHOOSE r \in S : TRUE

\* What a task of start() leaves: the invocation's locals, what it emitted
\* before the code that called or resumed it went on (ev) and after (later),
\* and whether it leaves the run flag alone (running) or clears it.
Result(l, ev, running) ==
    [l |-> l, ev |-> ev, running |-> running, later |-> <<>>]

\* The rejection of an awaited promise is delivered in a microtask: what the
\* catch emits comes after what the caller of start() emits on its return.
Deferred(r, ev) == [r EXCEPT !.ev = ev, !.later = r.ev]

\* start() lines 526-528: the epilogue every exit of the loop reaches.
\* The finished invocation keeps only the history fields stalls and stopLen.
Exit(l, ev, data, p) ==
    Result([Idle EXCEPT !.stalls = l.stalls, !.stopLen = l.stopLen],
           ev \o <<logTotal("Scraping complete", data, p), sendComplete(data, p)>>,
           FALSE)

\* start() lines 521-524: the outer catch.
FatalSilent(l, ev, data, p) ==
    Exit(l, ev \o <<log("Fatal error", p)>>, data, p)
Fatal(l, ev, data, p) ==
    Exit(l, ev \o <<log("Fatal error", p), sendError("Error", p)>>, data, p)

\* start() lines 498-507: end check, then scroll and suspend at wait(SCROLL_WAIT).
\* hasReachedEnd (499) and getCards (506) throw into the outer catch; an
\* exception of scrollFeed (507) reaches it through the await.
AfterFor(l, ev, d, data, fault, p) ==
    IF fault = "hasReachedEnd" THEN Fatal(l, ev, data, p)
    ELSE IF hasReachedEnd(d)
    THEN Exit(l, ev \o <<log("Reached end of results", p)>>, data, p)
    ELSE IF fault = "beforeCount"
    THEN Fatal(l, ev \o <<sendProgress("Scrolling for more results", 0, p)>>,
               data, p)
    ELSE IF fault = "scrollFeed"
    THEN Deferred(Fatal(l, <<>>, data, p),
                  ev \o <<sendProgress("Scrolling for more results", 0, p)>>)
    ELSE Result([l EXCEPT !.pc = "scroll", !.i = 0,
                          !.previousName = "", !.loaded = FALSE,
                          !.beforeCount = Len(getCards(d))],
                ev \o <<sendProgress("Scrolling for more results", 0, p),
                        scrollToBottom(p)>>,
                TRUE)

\* scrapeCard() lines 363-383 inside the per-entry try of start(): up to the
\* first await, or straight to wait(CLICK_DELAY) when it returns or throws.
\* scrapeCard is async: an exception in it rejects the promise start() awaits,
\* so the per-entry catch (491-493) logs after the caller of start() went on.
ScrapeCardBegin(l, ev, d, urls, fault, p) ==
    LET card == l.cards[l.i + 1]
        e1 == ev \o <<sendProgress("Scraping card", l.i + 1, p)>>
        l0 == [l EXCEPT !.previousName = "", !.loaded = FALSE, !.threw = FALSE]
    IN  IF fault = "entry"
        THEN Deferred(Result([l0 EXCEPT !.pc = "clickDelay"],
                             <<log("Error scraping card", p)>>, TRUE),
                      e1)
        ELSE IF has(urls, getUniqueUrl(card))
        THEN Result([l0 EXCEPT !.pc = "clickDelay"], e1, TRUE)
        ELSE Result([l0 EXCEPT !.pc = "detail", !.previousName = extractName(d)],
                    e1 \o <<click(l.i, card, p)>>, TRUE)

\* start() lines 475-496: the for loop entered at index `from`.
\* getUniqueUrl(card.href) (482) throws into the outer catch.
ForFromDeaf(l, from, ev, d, urls, data, running, fault, p) ==
    IF from >= Len(l.cards)
    THEN AfterFor(l, ev, d, data, fault, p)
    ELSE IF fault = "href" THEN Fatal(l, ev, data, p)
    ELSE LET k == SkipTo(from, l.cards, urls)
         IN  IF k >= Len(l.cards)
             THEN The({AfterFor(l1, ev, d, data, fault, p) :
                         l1 \in {[l EXCEPT !.lastProcessedIndex = Len(l.cards)]}})
             ELSE The({ScrapeCardBegin(l1, ev, d, urls, fault, p) :
                         l1 \in {[l EXCEPT !.i = k, !.lastProcessedIndex = k + 1]}})
ForFrom(l, from, ev, d, urls, data, running, fault, p) ==
    IF from >= Len(l.cards) \/ ~running
    THEN AfterFor(l, ev, d, data, fault, p)
    ELSE IF fault = "href" THEN Fatal(l, ev, data, p)
    ELSE LET k == SkipTo(from, l.cards, urls)
         IN  IF k >= Len(l.cards)
             THEN The({AfterFor(l1, ev, d, data, fault, p) :
                         l1 \in {[l EXCEPT !.lastProcessedIndex = Len(l.cards)]}})
             ELSE The({ScrapeCardBegin(l1, ev, d, urls, fault, p) :
                         l1 \in {[l EXCEPT !.i = k, !.lastProcessedIndex = k + 1]}})

\* start() lines 468-470: the cursor the cycle starts from.
ShrinkResetLoose(n, cursor) == IF n <= cursor THEN 0 ELSE cursor
ShrinkKeep(n, cursor) == cursor
ShrinkReset(n, cursor) == IF n < cursor THEN 0 ELSE cursor

\* start() lines 463-475: one pass of the while body from its top.
\* getCards (464) throws into the outer catch.
Cycle(l, ev, d, urls, data, fault, p) ==
    IF fault = "getCards" THEN Fatal(l, ev, data, p)
    ELSE LET cards == getCards(d)
             cur == ShrinkReset(Len(cards), l.lastProcessedIndex)
             l1 == [l EXCEPT !.cards = cards, !.newDataThisRound = 0,
                             !.lastProcessedIndex = cur, !.committed = FALSE,
                             !.cursorBefore = l.lastProcessedIndex]
         IN  The({ForFrom(l2, cur,
                          ev \o <<sendProgress("Processing", Len(cards), p)>>,
                          d, urls, data, TRUE, fault, p) : l2 \in {l1}})

\* start() lines 508-520 after wait(SCROLL_WAIT): the stall policy, then the
\* while condition and, if it holds, the next cycle.
StallLimitLate(fails) == fails > MAX_SCROLL_FAILS
StallLimit(fails) == fails >= MAX_SCROLL_FAILS

AfterScroll(l, d, urls, data, running, fault, p) ==
    IF fault = "afterCount" THEN Fatal(l, <<>>, data, p)
    ELSE LET afterCount == Len(getCards(d))
             failed == afterCount <= l.beforeCount /\ l.newDataThisRound = 0
             fails == IF failed THEN l.consecutiveScrollFails + 1 ELSE 0
             stalled == afterCount <= l.beforeCount /\ ~l.committed
             l1 == [l EXCEPT !.consecutiveScrollFails = fails,
                             !.stalls = IF stalled THEN l.stalls + 1 ELSE 0]
             e1 == IF failed THEN <<log("No new cards after scroll", p)>> ELSE <<>>
         IN  IF failed /\ StallLimit(fails)
             THEN Exit(l1, e1 \o <<log("Max scroll attempts reached, stopping", p)>>,
                       data, p)
             ELSE IF ~running THEN Exit(l1, e1, data, p)
             ELSE The({Cycle(l2, e1, d, urls, data, fault, p) : l2 \in {l1}})

\* scrapeCard() line 390: the view still shows the name captured before the click.
NameUnchangedNever(currentName, previousName) == FALSE
NameUnchangedOrEmpty(currentName, previousName) == currentName = previousName
NameUnchanged(currentName, previousName) ==
    currentName = previousName /\ previousName # ""

\* scrapeCard() line 407: only store if we got at least a name.
StoreAnything(data) == TRUE
ShouldStore(data) == data.name # ""

\* scrapeCard() lines 389-420 after wait(500), and start() lines 489-495:
\* the name-change guard, the extraction and the commit, then wait(CLICK_DELAY).
ScrapeCardEnd(l, d, data, urls, fault, p) ==
    LET rawUrl == l.cards[l.i + 1]
        uniqueUrl == getUniqueUrl(rawUrl)
        currentName == extractName(d)
        rec == extractAllData(d)
        l1 == [l EXCEPT !.pc = "clickDelay", !.previousName = "",
                        !.loaded = FALSE, !.threw = FALSE]
        skip(ev) == [l |-> l1,
                     data |-> data, urls |-> urls, ev |-> ev, commit |-> FALSE]
    IN  IF fault = "entry" THEN skip(<<log("Error scraping card", p)>>)
        ELSE IF NameUnchanged(currentName, l.previousName)
        THEN skip(<<logName("Duplicate content detected", currentName, p)>>)
        ELSE IF ShouldStore(rec)
        THEN LET data1 == Append(data, [name |-> rec.name, url |-> rawUrl])
             IN  [l |-> [l1 EXCEPT !.newDataThisRound = l.newDataThisRound + 1],
                  data |-> data1, urls |-> urls \cup {uniqueUrl},
                  ev |-> <<logName("Scraped", rec.name, p), sendCount(data1, p)>>, commit |-> TRUE]
        ELSE skip(<<>>)

\* ------------------------------------------------------------ the state
Init ==
    /\ scrapedData = <<>>
    /\ scrapedUrls = {}
    /\ isRunning = FALSE
    /\ loop = [p \in Loops |-> Idle]
    /\ visible \in 0..MaxCards
    /\ out = <<>>
    /\ commandsLeft = MaxCommands
    /\ feedChangesLeft = MaxFeedChanges
    /\ lastTask = 0
    /\ seen = Unread

\* The task found c entries in the feed.
Observe(c) ==
    /\ visible' = c
    /\ feedChangesLeft' = IF c = visible THEN feedChangesLeft
                          ELSE feedChangesLeft - 1

\* An exception thrown in the task: none, one inside the per-entry try of
\* start() ("entry"), one before the outer try (getFeedContainer at line 450),
\* or one outside the per-entry try but inside the outer try, named by the
\* call that throws: getCards at line 464, getUniqueUrl(card.href) at 482,
\* hasReachedEnd at 499, getCards at 506 ("beforeCount"), scrollFeed at 507,
\* getCards at 508 ("afterCount").
CycleFaults == {"getCards", "href", "hasReachedEnd", "beforeCount", "scrollFeed"}
Faults == {"none", "entry", "afterCount", "getFeedContainer"} \cup CycleFaults

\* The calls after the snapshot that a task of the loop makes, by the await it
\* ends at when none of them throws: the for loop's getUniqueUrl when it
\* clicks an entry, the end check and the two calls that follow it when it
\* goes on to scroll.
ThrowsBefore(pc0) ==
    IF pc0 = "detail" THEN {"href"}
    ELSE IF pc0 = "scroll" THEN {"hasReachedEnd", "beforeCount", "scrollFeed"}
    ELSE {}

FreeLoop == Min({p \in Loops : loop[p].pc = "idle"})

\* start() lines 450-454: no feed container, the invocation returns at once.
MissingFeedRuns(l, p) ==
    Result(l, <<sendError("No search results found", p)>>, TRUE)
MissingFeed(l, p) ==
    Result(l, <<sendError("No search results found", p)>>, FALSE)

\* start() lines 444-461 run from the handler, then the first cycle.  Line
\* 450 is before the try: if getFeedContainer throws, the promise start()
\* returned is rejected and nothing else happens.
start(p, d, fault) ==
    IF isRunning THEN Result(loop[p], <<log("Already running", p)>>, isRunning)
    ELSE IF fault = "getFeedContainer" THEN Result(loop[p], <<>>, FALSE)
    ELSE IF ~d.feed THEN MissingFeed(loop[p], p)
    ELSE Cycle(Idle, <<log("Scraping started", p)>>, d, scrapedUrls, scrapedData,
               fault, p)

\* What line 450 gave the start() just called.
FeedSeen(d, fault) ==
    [Handled("startScraping") EXCEPT !.feed = IF fault = "getFeedContainer" THEN "threw"
                            ELSE IF d.feed THEN "present" ELSE "absent"]

\* The documents a start command may find.
StartViews ==
    (IF visible = 0 \/ feedChangesLeft > 0
     THEN {Dom(FALSE, 0, "", "", FALSE, FALSE)} ELSE {})
    \cup UNION {ViewsEndingAt(start(FreeLoop, Blank(c), "none").l.pc, c) :
                  c \in FeedCounts(visible, feedChangesLeft)}

\* onMessage 'startScraping' (lines 607-614).
StartAlways(running) == FALSE
StartRefused(running) == running

Started(d, fault) ==
    LET r == start(FreeLoop, d, fault)
    IN  /\ Observe(d.count)
        /\ loop' = [loop EXCEPT ![FreeLoop] = r.l]
        /\ isRunning' = r.running
        /\ out' = r.ev \o <<sendResponse("started", 0)>> \o r.later
        /\ seen' = FeedSeen(d, fault)
        /\ UNCHANGED <<scrapedData, scrapedUrls>>

HandleStart ==
    /\ commandsLeft > 0
    /\ commandsLeft' = commandsLeft - 1
    /\ lastTask' = 0
    /\ IF StartRefused(isRunning)
       THEN /\ out' = <<sendResponse("already_running", 0)>>
            /\ seen' = Handled("startScraping")
            /\ UNCHANGED <<scrapedData, scrapedUrls, isRunning, loop, visible,
                           feedChangesLeft>>
       ELSE \/ \E d \in StartViews : Started(d, "none")
            \/ \E fault \in {"getFeedContainer", "getCards"} :
                 Started(Blank(visible), fault)
            \/ \E c \in FeedCounts(visible, feedChangesLeft) :
                 \E fault \in ThrowsBefore(start(FreeLoop, Blank(c), "none").l.pc)
                                \cup {"entry"} :
                   /\ fault = "entry"
                        => start(FreeLoop, Blank(c), "none").l.pc = "detail"
                   /\ Started(Blank(c), fault)

\* onMessage 'stopScraping' (lines 616-619) and stop() (lines 531-535).
HandleStop ==
    /\ commandsLeft > 0
    /\ commandsLeft' = commandsLeft - 1
    /\ lastTask' = 0
    /\ isRunning' = FALSE
    /\ loop' = [p \in Loops |->
                  IF loop[p].pc # "idle" /\ loop[p].stopLen = -1
                  THEN [loop[p] EXCEPT !.stopLen = Len(scrapedData),
                                       !.stopPc = loop[p].pc]
                  ELSE loop[p]]
    /\ out' = <<log("Scraping stopped by user", 0),
                sendProgress("Stopped by user", 0, 0),
                sendResponse("stopped", Len(scrapedData))>>
    /\ seen' = Handled("stopScraping")
    /\ UNCHANGED <<scrapedData, scrapedUrls, visible, feedChangesLeft>>

\* onMessage 'resetData' (lines 621-624) and reset() (lines 537-541).
HandleReset ==
    /\ commandsLeft > 0
    /\ commandsLeft' = commandsLeft - 1
    /\ lastTask' = 0
    /\ scrapedData' = <<>>
    /\ scrapedUrls' = {}
    /\ out' = <<log("Data reset cleared", 0), sendResponse("reset", 0)>>
    /\ seen' = Handled("resetData")
    /\ UNCHANGED <<isRunning, loop, visible, feedChangesLeft>>

\* onMessage 'getStatus' (lines 626-631).
HandleGetStatus ==
    /\ commandsLeft > 0
    /\ commandsLeft' = commandsLeft - 1
    /\ lastTask' = 0
    /\ out' = <<sendStatus(isRunning, Len(scrapedData))>>
    /\ seen' = Handled("getStatus")
    /\ UNCHANGED <<scrapedData, scrapedUrls, isRunning, loop, visible,
                   feedChangesLeft>>

\* onMessage with any other action: the default case (lines 646-647).
HandleUnknown ==
    /\ commandsLeft > 0
    /\ commandsLeft' = commandsLeft - 1
    /\ lastTask' = 0
    /\ out' = <<sendResponse("unknown_action", 0)>>
    /\ seen' = Handled("other")
    /\ UNCHANGED <<scrapedData, scrapedUrls, isRunning, loop, visible,
                   feedChangesLeft>>

\* ------------------------------------------------------- export content
\* A JavaScript string is the sequence of its characters; a Record's field is
\* a string or undefined.
QUOTE == "\""
COMMA == ","
NEWLINE == "\n"
Undefined == [type |-> "undefined"]
Str(text) == [type |-> "string", text |-> text]

\* generateCSVContent line 546 and the field order of lines 547-555.
headers ==
    << <<"N", "a", "m", "e">>, <<"P", "h", "o", "n", "e">>,
       <<"W", "e", "b", "s", "i", "t", "e">>,
       <<"A", "d", "d", "r", "e", "s", "s">>,
       <<"R", "a", "t", "i", "n", "g">>,
       <<"R", "e", "v", "i", "e", "w", "s">>, <<"U", "R", "L">> >>
Fields == <<"name", "phone", "website", "address", "rating", "reviews", "url">>

\* d.name || '' (lines 548-554): undefined and the empty string are falsy.
OrEmpty(v) == IF v.type = "undefined" \/ v.text = <<>> THEN <<>> ELSE v.text

\* String(cell).replace(/"/g, '""') (line 558).
replaceQuotesNone(cell) == cell
RECURSIVE replaceQuotes(_)
replaceQuotes(cell) ==
    IF cell = <<>> THEN <<>>
    ELSE (IF Head(cell) = QUOTE THEN <<QUOTE, QUOTE>> ELSE <<Head(cell)>>)
           \o replaceQuotes(Tail(cell))

\* Array.prototype.join (lines 558-559).
RECURSIVE join(_, _)
join(parts, separator) ==
    IF parts = <<>> THEN <<>>
    ELSE IF Len(parts) = 1 THEN parts[1]
    ELSE parts[1] \o <<separator>> \o join(Tail(parts), separator)

\* generateCSVContent (lines 545-560).
generateCSVContent(data) ==
    LET rows == [k \in 1..Len(data) |->
                   [c \in 1..Len(Fields) |-> OrEmpty(data[k][Fields[c]])]]
        line(row) == join([c \in 1..Len(row) |->
                             <<QUOTE>> \o replaceQuotes(row[c]) \o <<QUOTE>>],
                          COMMA)
        all == <<headers>> \o rows
    IN  join([k \in 1..Len(all) |-> line(all[k])], NEWLINE)

\* The format field of an export request; "pdf" stands for every value the
\* inner switch has no case for.
Formats == {"csv", "excel", "json", "pdf"}

\* An exception thrown by a DOM call of downloadFile: none, one before the
\* file is saved ("anchor": new Blob 563, createObjectURL 564, createElement
\* 565, appendChild 568 or anchor.click 569 throws), or one after it
\* ("removeChild": removeChild 570 or revokeObjectURL 571 throws).
ExportFaults == {"none", "anchor", "removeChild"}

\* anchor.click() (line 569) saves the file.  The event carries the file name
\* and the number of Records serialized.
anchorClick(data, filename) == Ev("download", Len(data), filename, <<>>, 0)

\* What a call of a method leaves: what it emitted, and whether it threw.
Returned(ev) == [ev |-> ev, threw |-> FALSE]
Thrown(ev) == [ev |-> ev, threw |-> TRUE]

\* downloadFile (lines 562-572).
downloadFile(data, filename, fault) ==
    IF fault = "anchor" THEN Thrown(<<>>)
    ELSE IF fault = "removeChild" THEN Thrown(<<anchorClick(data, filename)>>)
    ELSE Returned(<<anchorClick(data, filename)>>)

\* exportCSV, exportExcelCSV, exportJSON (lines 574-591): downloadFile, then
\* the log unless downloadFile threw.
exportAs(data, filename, message, fault) ==
    LET d == downloadFile(data, filename, fault)
    IN  IF d.threw THEN d ELSE Returned(d.ev \o <<log(message, 0)>>)

\* The inner switch of onMessage 'export' (lines 638-642).
export(format, data, fault) ==
    CASE format = "csv" ->
           exportAs(data, "google-maps-data.csv", "Exported CSV", fault)
      [] format = "excel" ->
           exportAs(data, "google-maps-data-excel.csv", "Exported Excel CSV", fault)
      [] format = "json" ->
           exportAs(data, "google-maps-data.json", "Exported JSON", fault)
      [] OTHER -> Returned(<<>>)

\* onMessage 'export' (lines 633-644).  No try encloses the call of the
\* export method: an exception of it leaves the listener before sendResponse.
ExportEmptyToo(data) == FALSE
ExportRefused(data) == Len(data) = 0
HandleExport ==
    /\ commandsLeft > 0
    /\ commandsLeft' = commandsLeft - 1
    /\ lastTask' = 0
    /\ seen' = Handled("export")
    /\ UNCHANGED <<scrapedData, scrapedUrls, isRunning, loop, visible,
                   feedChangesLeft>>
    /\ \E format \in Formats, fault \in ExportFaults :
         out' = IF ExportRefused(scrapedData)
                THEN <<sendResponse("no_data", 0)>>
                ELSE LET r == export(format, scrapedData, fault)
                     IN  IF r.threw THEN r.ev
                         ELSE r.ev \o <<sendResponse("exported", 0)>>

\* The ticks of waitForDetailPanel's timer that are told apart: the ones
\* before the timeout behave as the first, the last is the timeout.
PollTimes == {interval, DETAIL_TIMEOUT}

\* waitForDetailPanel (lines 79-117): the tick at which the promise resolves;
\* scrapeCard then logs a failed wait and suspends at wait(500).  The ticks
\* before it that return leave the promise pending and change nothing.  A
\* tick that comes after the timeout, the earlier ones having thrown, resolves
\* as the timeout tick does: elapsed >= DETAIL_TIMEOUT holds of it as well.
DetailResolved(p) ==
    /\ loop[p].pc = "detail"
    /\ lastTask' = p
    /\ seen' = Unread
    /\ UNCHANGED <<scrapedData, scrapedUrls, isRunning, visible, commandsLeft,
                   feedChangesLeft>>
    /\ \E loaded \in {PollOutcome(d, loop[p].previousName, elapsed) :
                        d \in DetailView(visible), elapsed \in PollTimes}
                       \ {"pending"} :
         /\ out' = IF loaded = "false"
                   THEN <<log("Detail panel did not load or update", p)>>
                   ELSE <<>>
         /\ loop' = [loop EXCEPT ![p].pc = "settle",
                                 ![p].loaded = (loaded = "true")]

\* A run of the setInterval callback (lines 84-115) in which a page query
\* (lines 89-104) throws: the exception leaves the callback, which no try
\* encloses, before clearInterval and resolve.  The promise stays pending and
\* the timer goes on firing.
DetailThrows(p) ==
    /\ loop[p].pc = "detail"
    /\ lastTask' = p
    /\ seen' = Unread
    /\ out' = <<>>
    /\ loop' = [loop EXCEPT ![p].threw = TRUE]
    /\ UNCHANGED <<scrapedData, scrapedUrls, isRunning, visible, commandsLeft,
                   feedChangesLeft>>

\* The timer of wait(500) fires: the rest of scrapeCard.
SettleDone(p) ==
    /\ loop[p].pc = "settle"
    /\ lastTask' = p
    /\ UNCHANGED <<isRunning, visible, commandsLeft, feedChangesLeft>>
    /\ \E d \in PanelView(visible), fault \in {"none", "entry"} :
         /\ seen' = [Unread EXCEPT !.title = d.title, !.label = d.label,
                                   !.threw = (fault = "entry"),
                                   !.loaded = loop[p].loaded]
         /\ \E r \in {ScrapeCardEnd(loop[p], d, scrapedData, scrapedUrls, fault, p)} :
             /\ scrapedData' = r.data
             /\ scrapedUrls' = r.urls
             /\ out' = r.ev
             /\ loop' = [q \in Loops |->
                           IF q = p
                           THEN [r.l EXCEPT !.committed = loop[p].committed \/ r.commit]
                           ELSE IF r.commit /\ loop[q].pc # "idle"
                           THEN [loop[q] EXCEPT !.committed = TRUE]
                           ELSE loop[q]]

\* A task of the loop ran to its next await, or to the end of start().
Landed(p, r0) ==
    \E r \in {r0} :
      /\ loop' = [loop EXCEPT ![p] = r.l]
      /\ isRunning' = (isRunning /\ r.running)
      /\ out' = r.ev \o r.later

Resumed(p, r0, d) == Observe(d.count) /\ Landed(p, r0)

\* start() from the i++ of the for loop on, as the timer of wait(CLICK_DELAY)
\* fires.
AfterClickDelay(l, d, fault, p) ==
    ForFrom(l, l.i + 1, <<>>, d, scrapedUrls, scrapedData, isRunning, fault, p)

\* The views of the task that resumes from wait(CLICK_DELAY), which ends at
\* pc0 on a blank view: the for loop reads the feed only after the end check,
\* for beforeCount.
ClickDelayViews(pc0) ==
    ViewsEndingAt(pc0, visible)
      \cup (IF pc0 = "scroll"
            THEN {Blank(c) : c \in FeedCounts(visible, feedChangesLeft)}
            ELSE {})

ClickDelayDone(p) ==
    /\ loop[p].pc = "clickDelay"
    /\ lastTask' = p
    /\ seen' = Unread
    /\ UNCHANGED <<scrapedData, scrapedUrls, commandsLeft>>
    /\ \E r0 \in {AfterClickDelay(loop[p], Blank(visible), "none", p)} :
         \/ Resumed(p, r0, Blank(visible))
         \/ \E fault \in ThrowsBefore(r0.l.pc) :
              Resumed(p, AfterClickDelay(loop[p], Blank(visible), fault, p),
                      Blank(visible))
         \/ \E d \in ClickDelayViews(r0.l.pc) \ {Blank(visible)} :
              Resumed(p, AfterClickDelay(loop[p], d, "none", p), d)
         \/ /\ r0.l.pc = "detail"
            /\ Resumed(p, AfterClickDelay(loop[p], Blank(visible), "entry", p),
                       Blank(visible))

\* The calls that can throw in the task that resumes from wait(SCROLL_WAIT)
\* once it has read the feed, when it ends at pc0 on a blank view: the next
\* cycle's snapshot, unless the invocation ends before it, and those after.
ScrollThrows(pc0) ==
    (IF pc0 = "idle" THEN {} ELSE {"getCards"}) \cup ThrowsBefore(pc0)

\* The timer of wait(SCROLL_WAIT) fires: the rest of the cycle, which reads
\* the feed first.
ScrollDone(p) ==
    /\ loop[p].pc = "scroll"
    /\ lastTask' = p
    /\ seen' = Unread
    /\ UNCHANGED <<scrapedData, scrapedUrls, commandsLeft>>
    /\ \/ Resumed(p, AfterScroll(loop[p], Blank(visible), scrapedUrls, scrapedData,
                                 isRunning, "afterCount", p), Blank(visible))
       \/ \E c \in FeedCounts(visible, feedChangesLeft) :
            /\ Observe(c)
            /\ \E r0 \in {AfterScroll(loop[p], Blank(c), scrapedUrls, scrapedData,
                                      isRunning, "none", p)} :
                 \/ Landed(p, r0)
                 \/ \E d \in ViewsEndingAt(r0.l.pc, c) \ {Blank(c)} :
                      Landed(p, AfterScroll(loop[p], d, scrapedUrls, scrapedData,
                                            isRunning, "none", p))
                 \/ /\ r0.l.pc = "detail"
                    /\ Landed(p, AfterScroll(loop[p], Blank(c), scrapedUrls,
                                             scrapedData, isRunning, "entry", p))
                 \/ \E fault \in ScrollThrows(r0.l.pc) :
                      Landed(p, AfterScroll(loop[p], Blank(c), scrapedUrls,
                                            scrapedData, isRunning, fault, p))

\* The tasks that resume a suspended invocation when no exception leaves the
\* timer callback that would resume it.
Step(p) ==
    \/ DetailResolved(p) /\ ~loop[p].threw
    \/ SettleDone(p)
    \/ ClickDelayDone(p)
    \/ ScrollDone(p)

Next ==
    \/ HandleStart
    \/ HandleStop
    \/ HandleReset
    \/ HandleGetStatus
    \/ HandleExport
    \/ HandleUnknown
    \/ \E p \in Loops : DetailResolved(p)
    \/ \E p \in Loops : DetailThrows(p)
    \/ \E p \in Loops : SettleDone(p)
    \/ \E p \in Loops : ClickDelayDone(p)
    \/ \E p \in Loops : ScrollDone(p)

Spec == Init /\ [][Next]_vars

\* ------------------------------------------- the serializer on its own
\* The Record lists generateCSVContent is applied to: one Record with fields
\* of up to MaxField characters, or up to MaxRows Records with fields of at
\* most one character.  name, phone and url range over every such string and
\* undefined; the other fields are one of each kind.
MaxRows == 2
MaxField == 2
Alphabet == {"a", QUOTE, COMMA, NEWLINE}
CsvValues(n) ==
    {Undefined} \cup {Str(t) : t \in UNION {[1..m -> Alphabet] : m \in 0..n}}
CsvRecords(n) ==
    {[name |-> a, phone |-> b, website |-> Undefined,
      address |-> Str(<<"a", COMMA>>), rating |-> Str(<<"a">>),
      reviews |-> Str(<<>>), url |-> c] : a, b, c \in CsvValues(n)}
CsvLists ==
    {<<r>> : r \in CsvRecords(MaxField)}
      \cup UNION {[1..m -> CsvRecords(1)] : m \in 0..MaxRows}

CsvInit ==
    /\ scrapedData \in CsvLists
    /\ scrapedUrls = {}
    /\ isRunning = FALSE
    /\ loop = [p \in Loops |-> Idle]
    /\ visible = 0
    /\ out = <<>>
    /\ commandsLeft = 1
    /\ feedChangesLeft = 0
    /\ lastTask = 0
    /\ seen = Unread

\* exportCSV (lines 574-578): the file saved holds generateCSVContent().
exportCSV ==
    /\ commandsLeft > 0
    /\ commandsLeft' = commandsLeft - 1
    /\ lastTask' = 0
    /\ \E fault \in ExportFaults :
         LET file == Ev("download", Len(scrapedData), "google-maps-data.csv",
                        generateCSVContent(scrapedData), 0)
         IN  out' = IF fault = "anchor" THEN <<>>
                    ELSE IF fault = "removeChild" THEN <<file>>
                    ELSE <<file, log("Exported CSV", 0)>>
    /\ seen' = Unread
    /\ UNCHANGED <<scrapedData, scrapedUrls, isRunning, loop, visible,
                   feedChangesLeft>>

CsvNext == exportCSV
CsvSpec == CsvInit /\ [][CsvNext]_vars

\* ------------------------------------ the detail-view detector on its own
\* waitForDetailPanel tick by tick.  The invocation's record carries the
\* closure of the pending promise: elapsed (line 81), and as history the view
\* the last tick read.  Spec folds the ticks that return and leave the promise
\* pending into DetailResolved.
Polling(previousName) ==
    [pc |-> "detail", cards |-> <<Href(1)>>, i |-> 0, lastProcessedIndex |-> 1,
     consecutiveScrollFails |-> 0, newDataThisRound |-> 0, beforeCount |-> 0,
     previousName |-> previousName, loaded |-> FALSE,
     stopLen |-> -1, stopPc |-> "", committed |-> FALSE, stalls |-> 0,
     cursorBefore |-> 0, threw |-> FALSE, elapsed |-> 0, view |-> Blank(1)]

\* The state in which scrapeCard has clicked the first entry and awaits
\* waitForDetailPanel(previousName), for every name extractName can return.
PollInit ==
    /\ scrapedData = <<>>
    /\ scrapedUrls = {}
    /\ isRunning = TRUE
    /\ \E previousName \in {extractName(d) : d \in PanelView(1)} :
         loop = [p \in Loops |-> IF p = 1 THEN Polling(previousName) ELSE Idle]
    /\ visible = 1
    /\ out = <<>>
    /\ commandsLeft = 0
    /\ feedChangesLeft = 0
    /\ lastTask = 0
    /\ seen = Unread

\* One run of the setInterval callback `check` (lines 84-115) while the
\* interval is not cleared.  Line 85 advances elapsed first; a page query of
\* lines 89-104 may then throw, which ends the run of the callback with the
\* promise pending; otherwise the tick that resolves the promise resumes
\* scrapeCard as in DetailResolved.  The ticks followed are those up to
\* MaxLatePolls after the timeout.
check(p) ==
    /\ loop[p].pc = "detail"
    /\ loop[p].elapsed < DETAIL_TIMEOUT + MaxLatePolls * interval
    /\ lastTask' = p
    /\ seen' = Unread
    /\ UNCHANGED <<scrapedData, scrapedUrls, isRunning, visible, commandsLeft,
                   feedChangesLeft>>
    /\ \E d \in DetailView(visible), throws \in BOOLEAN :
         LET elapsed == loop[p].elapsed + interval
             loaded == IF throws THEN "pending"
                       ELSE PollOutcome(d, loop[p].previousName, elapsed)
         IN  /\ out' = IF loaded = "false"
                       THEN <<log("Detail panel did not load or update", p)>>
                       ELSE <<>>
             /\ loop' = [loop EXCEPT ![p].elapsed = elapsed,
                                     ![p].view = IF throws THEN loop[p].view ELSE d,
                                     ![p].threw = loop[p].threw \/ throws,
                                     ![p].pc = IF loaded = "pending"
                                               THEN "detail" ELSE "settle",
                                     ![p].loaded = (loaded = "true")]

PollNext == check(1)
PollSpec == PollInit /\ [][PollNext]_vars

\* The interval timer fires as long as it is not cleared.
PollFairSpec == PollSpec /\ WF_vars(check(1))

\* Timers fire: an invocation suspended at a wait() is eventually resumed, and
\* so is one suspended at a detector wait as long as no run of the callback
\* has thrown.  Nothing bounds the runs of the callback that throw, so no
\* resolution is assumed of a wait once one has.
FairSpec == Spec /\ \A p \in Loops : WF_vars(Step(p))

\* ============================================================ properties
Outs == {out[k] : k \in DOMAIN out}
OutsNext == {out'[k] : k \in DOMAIN out'}
Active(p) == loop[p].pc # "idle"
\* The canonical key of a Record.
Key(r) == getUniqueUrl(r.url)
Sent(action, p) == {e \in Outs : e.action = action /\ e.by = p}
Logged(message, p) == log(message, p) \in Outs
\* The task that just ran took loop p through the top of a cycle.
CycleBegan(p) ==
    \E e \in Sent("updateProgress", p) : e.message = "Processing"

\* C1: no two Records of the Record list have the same canonical key, under
\* any interleaving of the commands with the steps of the traversal.
C1_NoDuplicateKeys ==
    \A a, b \in DOMAIN scrapedData :
        a # b => Key(scrapedData[a]) # Key(scrapedData[b])

\* C2: at most one traversal loop is in flight (suspended at an await) at any
\* time, for every sequence of start and stop commands.
C2_SingleLoop == Cardinality({p \in Loops : Active(p)}) <= 1

\* C3: every Record of the Record list has a non-empty name, and a scrapeCard
\* that ends without reporting a count (it did not commit) leaves the Record
\* list and the Dedup Set unchanged.
C3_NameGate ==
    /\ [](\A k \in DOMAIN scrapedData : scrapedData[k].name # "")
    /\ [][\A p \in Loops :
            (loop[p].pc = "settle" /\ loop'[p].pc = "clickDelay"
             /\ ~\E e \in OutsNext : e.action = "updateCount")
            => UNCHANGED <<scrapedData, scrapedUrls>>]_vars

\* A Record was just committed, by a scrape that reported the new count.
C3_Witness ==
    /\ Len(scrapedData) > 0
    /\ \E e \in Outs : e.action = "updateCount" /\ e.count = Len(scrapedData)

\* C4: once stop was issued while a card scrape of a loop was in flight, that
\* loop clicks no further feed entry.
C4_NoClickAfterStop ==
    \A e \in Outs :
        e.action = "click" => loop[e.by].stopPc \notin {"detail", "settle"}

\* C5 as stated: the count of the scrapingComplete of a run stopped mid-cycle
\* is the Record list length at the moment stop was issued.
C5_CountAtStop ==
    \A p \in Loops : \A e \in Sent("scrapingComplete", p) :
        loop[p].stopLen # -1 => e.count = loop[p].stopLen

\* C5 amended: the count of the scrapingComplete of a run stopped mid-cycle is
\* the Record list length at the moment the notification is sent.
C5_CountAtCompletion ==
    \A p \in Loops : \A e \in Sent("scrapingComplete", p) :
        loop[p].stopLen # -1 => e.count = Len(scrapedData)

\* A stopped run reported one Record more than the list held at the stop.
C5_Witness ==
    \E p \in Loops : \E e \in Sent("scrapingComplete", p) :
        loop[p].stopLen # -1 /\ e.count = loop[p].stopLen + 1

\* Invocation p of start() has just ended as the epilogue prescribes.
C6_Completed(p) ==
    /\ ~Active(p)
    /\ ~isRunning
    /\ \E e \in Sent("scrapingComplete", p) : e.count = Len(scrapedData)

\* C6: every run that entered Running ends, whatever ends it: no invocation of
\* start() stays suspended for ever (the popup sends finitely many commands, so
\* this is that infinitely often none is in flight), and the task in which an
\* invocation ends, be it the start command's own task or a later one, leaves
\* the run state not running and sends a scrapingComplete whose count is the
\* Record list length of that moment.
C6_AlwaysCompletes ==
    /\ []<>(\A p \in Loops : ~Active(p))
    /\ [][\A p \in Loops : (Active(p) /\ ~Active(p)') => C6_Completed(p)']_vars
    /\ [](\A p \in Loops :
            (Logged("Scraping started", p) /\ ~Active(p)) => C6_Completed(p))

\* C7: a loop whose MAX_SCROLL_FAILS-th consecutive cycle ended in a scroll
\* with no growth of the visible-entry count and no commit ends in that very
\* task, through the stall exit and not the end-of-feed exit.
C7_StallExit ==
    [][\A p \in Loops :
         (loop'[p].stalls = MAX_SCROLL_FAILS /\ loop[p].stalls # MAX_SCROLL_FAILS)
         => /\ loop'[p].pc = "idle"
            /\ log("Max scroll attempts reached, stopping", p) \in OutsNext
            /\ log("Reached end of results", p) \notin OutsNext]_vars

C7_Witness ==
    \E p \in Loops :
        /\ loop[p].stalls = MAX_SCROLL_FAILS
        /\ Logged("Max scroll attempts reached, stopping", p)

\* C8: while a run lasts, lastProcessedIndex does not decrease, except in a
\* task that takes a snapshot shorter than the cursor.
C8_CursorMonotone ==
    [][\A p \in Loops :
         (Active(p) /\ loop'[p].pc # "idle")
         => \/ loop'[p].lastProcessedIndex >= loop[p].lastProcessedIndex
            \/ /\ loop[p].pc = "scroll"
               /\ Len(loop'[p].cards) < loop[p].lastProcessedIndex]_vars

\* A later cycle began with the cursor where the cycle before left it.
C8_Witness ==
    \E p \in Loops :
        /\ Active(p) /\ CycleBegan(p) /\ ~Logged("Scraping started", p)
        /\ loop[p].cursorBefore > 0
        /\ loop[p].cursorBefore <= Len(loop[p].cards)
        /\ loop[p].lastProcessedIndex >= loop[p].cursorBefore

\* C9: a cycle whose snapshot is shorter than the cursor processes the
\* snapshot from index 0: the cursor it leaves is that of a for loop started at
\* 0, and the entry it clicks is the first one from 0 that is not deduplicated.
C9_Shrunk(p) ==
    Active(p) /\ CycleBegan(p) /\ Len(loop[p].cards) < loop[p].cursorBefore
C9_CursorReset ==
    \A p \in Loops :
        C9_Shrunk(p)
        => LET n == Len(loop[p].cards)
               k == SkipTo(0, loop[p].cards, scrapedUrls)
           IN  /\ loop[p].lastProcessedIndex = IF k < n THEN k + 1 ELSE n
               /\ loop[p].pc = "detail"
                  => /\ loop[p].i = k
                     /\ click(k, Href(k + 1), p) \in Outs

\* After a shrink the loop clicked the entry at index 0 again.
C9_Witness ==
    \E p \in Loops :
        C9_Shrunk(p) /\ loop[p].pc = "detail" /\ click(0, Href(1), p) \in Outs

\* C10: a start command handled while isRunning is answered already_running
\* and changes neither the Record list, the Dedup Set, the run state nor any
\* loop's locals (cursor, stall counter, position).
C10_StartHandled ==
    /\ commandsLeft' = commandsLeft - 1
    /\ \E e \in OutsNext :
         e.action = "response" /\ e.message \in {"started", "already_running"}
C10_StartWhileRunning ==
    [][(isRunning /\ C10_StartHandled)
       => /\ sendResponse("already_running", 0) \in OutsNext
          /\ UNCHANGED <<scrapedData, scrapedUrls, isRunning, loop>>]_vars

C10_Witness ==
    /\ sendResponse("already_running", 0) \in Outs
    /\ isRunning
    /\ \E p \in Loops : Active(p)

\* C11: a start command handled while no feed container exists (line 450
\* finds none) reports a scrapingError and nothing else happens: the run
\* state is not Running after it, the invocation has returned, the Record
\* list, the Dedup Set and every invocation in flight are unchanged and no
\* scrapingComplete is sent.
C11_MissingFeed ==
    [][seen'.feed = "absent"
       => /\ \E p \in Loops : sendError("No search results found", p) \in OutsNext
          /\ ~isRunning'
          /\ UNCHANGED <<scrapedData, scrapedUrls, loop>>
          /\ ~\E e \in OutsNext : e.action = "scrapingComplete"]_vars

\* A start was handled with no feed container, after a stopped run that had
\* committed a Record.
C11_Witness ==
    /\ seen.feed = "absent"
    /\ \E p \in Loops : sendError("No search results found", p) \in Outs
    /\ sendResponse("started", 0) \in Outs
    /\ ~isRunning
    /\ Len(scrapedData) >= 1

\* C12: a reset command received while the run state is Running leaves the
\* Record list and the Dedup Set unchanged.
C12_ResetOnlyWhenIdle ==
    [][(isRunning /\ commandsLeft' = commandsLeft - 1
                  /\ sendResponse("reset", 0) \in OutsNext)
       => UNCHANGED <<scrapedData, scrapedUrls>>]_vars

\* The step resumes the scrapeCard call of invocation p after wait(500).
C13_Resumes(p) == loop[p].pc = "settle" /\ loop'[p].pc = "clickDelay"

\* The detector of that call had timed out without an updated heading.
C13_TimedOut(p) == C13_Resumes(p) /\ ~loop[p].loaded

\* The titles the claim calls valid: non-empty and not a placeholder.
C13_ValidTitles == Titles \ ({""} \cup Placeholders)

\* The name the extractors take from the view the step read.
C13_Name == extractName(Dom(TRUE, visible, seen'.title, seen'.label, FALSE, FALSE))

\* The step commits the Record of the entry invocation p is scraping.
C13_Commits(name, p) ==
    /\ scrapedData' = Append(scrapedData,
                             [name |-> name,
                              url |-> loop[p].cards[loop[p].i + 1]])
    /\ scrapedUrls' = scrapedUrls \cup {getUniqueUrl(loop[p].cards[loop[p].i + 1])}
    /\ sendCount(scrapedData', p) \in OutsNext

\* C13 as stated: after a detector timeout, a view that displays a valid
\* title always leads to a committed Record.
C13_DegradedCommit ==
    [][\A p \in Loops :
         (C13_TimedOut(p) /\ seen'.title \in C13_ValidTitles /\ ~seen'.threw)
         => C13_Commits(seen'.title, p)]_vars

\* C13 amended: when the scrape goes on after the detector's wait, timed out
\* or not, and the view displays a valid title, it commits a Record exactly
\* when no extractor throws and the name the extractors take from the view is
\* non-empty and differs from the name captured before the click; otherwise
\* the entry is skipped and the Record list and the Dedup Set are unchanged.
C13_CommitIfChanged ==
    [][\A p \in Loops :
         (C13_Resumes(p) /\ seen'.title \in C13_ValidTitles)
         => IF seen'.threw \/ C13_Name = "" \/ C13_Name = loop[p].previousName
            THEN UNCHANGED <<scrapedData, scrapedUrls>>
            ELSE C13_Commits(C13_Name, p)]_vars

\* A scrape whose detector had timed out went on, found a valid title other
\* than the name captured before the click, and committed a Record under it.
C13_Witness ==
    \E p \in Loops :
        /\ lastTask = p /\ loop[p].pc = "clickDelay"
        /\ ~seen.loaded /\ ~seen.threw /\ seen.title = "P"
        /\ logName("Scraped", "P", p) \in Outs
        /\ sendCount(scrapedData, p) \in Outs
        /\ scrapedData[Len(scrapedData)].name = "P"

\* The step resumes invocation p from wait(CLICK_DELAY) right after the task
\* that caught an exception of its scrape of entry i.
C14_ResumedAfterError(p) ==
    /\ loop[p].pc = "clickDelay" /\ Logged("Error scraping card", p)
    /\ commandsLeft' = commandsLeft
    /\ loop'[p].pc # "clickDelay" \/ loop'[p].i # loop[p].i

\* The step ends the scrape of the entry invocation p is at, and an exception
\* was thrown while it lasted: in scrapeCard, which the step's log of the
\* per-entry catch shows, or in a run of the detector's callback.
C14_ScrapeThrew(p) ==
    \/ log("Error scraping card", p) \in OutsNext
    \/ loop[p].pc = "settle" /\ loop[p].threw /\ loop'[p].pc # "settle"

\* C14: an exception thrown while scraping entry i is caught inside the cycle:
\* the per-entry catch logs it, the invocation stays in flight at
\* wait(CLICK_DELAY) with the run state as it was, nothing is committed, the
\* cursor is i+1, and the entry attempted next is the first one from index
\* i+1 of the same snapshot whose key is not in the Dedup Set, never entry i
\* again.
C14_EntryFault ==
    /\ [][\A p \in Loops :
            C14_ScrapeThrew(p)
            => /\ log("Error scraping card", p) \in OutsNext
               /\ loop'[p].pc = "clickDelay"
               /\ isRunning => isRunning'
               /\ UNCHANGED <<scrapedData, scrapedUrls>>
               /\ loop'[p].lastProcessedIndex = loop'[p].i + 1]_vars
    /\ [][\A p \in Loops :
            C14_ResumedAfterError(p)
            => \A e \in OutsNext :
                 (e.action = "click" /\ e.by = p)
                 => /\ e.count = SkipTo(loop[p].i + 1, loop[p].cards, scrapedUrls)
                    /\ e.count > loop[p].i
                    /\ e.url = loop[p].cards[e.count + 1]
                    /\ loop'[p].cards = loop[p].cards
                    /\ loop'[p].lastProcessedIndex = e.count + 1]_vars

\* C15: an exception caught by the outer catch of invocation p ends it in the
\* same task: scrapingError with the message is emitted, the run state is not
\* running, the invocation is over without a click on any entry, and the
\* Records and Dedup Set are as they were before the exception.
C15_FatalEndsRun ==
    [][\A p \in Loops :
        log("Fatal error", p) \in OutsNext
        => /\ sendError("Error", p) \in OutsNext
           /\ ~isRunning'
           /\ ~Active(p)'
           /\ UNCHANGED <<scrapedData, scrapedUrls>>
           /\ ~\E e \in OutsNext : e.by = p /\ e.action \in {"click", "scroll"}]_vars

\* An invocation died of a cycle exception after it had committed a Record.
C15_Witness ==
    \E p \in Loops :
        /\ Logged("Fatal error", p) /\ sendError("Error", p) \in Outs
        /\ ~isRunning /\ ~Active(p) /\ Len(scrapedData) >= 1

\* The step handles an export command.
C16_Export == seen'.command = "export"
C16_Frame == UNCHANGED <<scrapedData, scrapedUrls, isRunning, loop, visible>>

\* C16: an export received while the Record list is empty is answered no_data,
\* saves no file and changes no engine state; an export received with a
\* non-empty list, whatever its format and whether or not the export method
\* throws, leaves the Record list, the Dedup Set, the run state and every
\* invocation in flight unchanged; and no other task saves a file or answers
\* no_data or exported.
C16_ExportIsStateless ==
    [][/\ C16_Export
          => /\ C16_Frame
             /\ Len(scrapedData) = 0 => out' = <<sendResponse("no_data", 0)>>
             /\ Len(scrapedData) > 0
                  => sendResponse("no_data", 0) \notin OutsNext
       /\ (\E e \in OutsNext :
             \/ e.action = "download"
             \/ e.action = "response" /\ e.message \in {"no_data", "exported"})
          => C16_Export]_vars

\* An export arrived during a run that had not committed anything yet.
C16_Witness ==
    /\ seen.command = "export"
    /\ out = <<sendResponse("no_data", 0)>>
    /\ isRunning /\ \E p \in Loops : Active(p)
    /\ scrapedData = <<>>

\* An export during a run saved a file of the Records committed so far.
C16_Exported ==
    /\ sendResponse("exported", 0) \in Outs
    /\ anchorClick(scrapedData, "google-maps-data-excel.csv") \in Outs
    /\ isRunning /\ Len(scrapedData) >= 1

\* The reader of the tabular-plain format: a quote opens a quoted field; inside
\* one, two quotes are one quote character and a single quote closes it;
\* outside, a comma ends the field and a newline ends the row.
\* readField reads one field from position k: its text and the position of
\* the separator that ends it (Len(text) + 1 at the end of the text).
RECURSIVE readField(_, _, _, _)
readField(text, k, quoted, field) ==
    IF k > Len(text) THEN [field |-> field, at |-> k]
    ELSE IF quoted
    THEN IF text[k] # QUOTE
         THEN readField(text, k + 1, TRUE, field \o <<text[k]>>)
         ELSE IF k < Len(text) /\ text[k + 1] = QUOTE
         THEN readField(text, k + 2, TRUE, field \o <<QUOTE>>)
         ELSE readField(text, k + 1, FALSE, field)
    ELSE IF text[k] = QUOTE THEN readField(text, k + 1, TRUE, field)
    ELSE IF text[k] \in {COMMA, NEWLINE} THEN [field |-> field, at |-> k]
    ELSE readField(text, k + 1, FALSE, field \o <<text[k]>>)

RECURSIVE parseFrom(_, _, _, _)
parseFrom(text, k, row, rows) ==
    The({IF f.at > Len(text) THEN rows \o <<row \o <<f.field>>>>
         ELSE IF text[f.at] = COMMA
         THEN parseFrom(text, f.at + 1, row \o <<f.field>>, rows)
         ELSE parseFrom(text, f.at + 1, <<>>, rows \o <<row \o <<f.field>>>>) :
         f \in {readField(text, k, FALSE, <<>>)}})
parseCSV(text) == parseFrom(text, 1, <<>>, <<>>)

\* The text of a Record's field, a missing field being the empty string.
C17_Text(d, c) == IF d[Fields[c]].type = "undefined" THEN <<>> ELSE d[Fields[c]].text

\* C17: parsing the content of the saved CSV file gives the header row and
\* then one row per Record, in order, with the Record's seven field values
\* in the order name, phone, website, address, rating, reviews, url.
C17_RoundTrip ==
    \A e \in Outs :
        e.action = "download"
        => parseCSV(e.url)
             = <<headers>> \o [k \in 1..Len(scrapedData) |->
                                [c \in 1..7 |-> C17_Text(scrapedData[k], c)]]

\* Two Records with a quote, a comma, a newline and a missing field were
\* serialized.
C17_Witness ==
    /\ \E e \in Outs : e.action = "download" /\ Len(e.url) > 0
    /\ Len(scrapedData) = 2
    /\ scrapedData[1].name = Str(<<QUOTE>>)
    /\ scrapedData[1].url = Str(<<NEWLINE>>)
    /\ scrapedData[2].name = Str(<<COMMA>>)
    /\ scrapedData[2].phone = Undefined

\* The step takes the traversal of invocation p past entry j (1-based) of its
\* snapshot, whose canonical key is in the Dedup Set.
C18_Passes(p, j) ==
    /\ loop'[p].pc # "idle"
    /\ j \in 1..Len(loop'[p].cards)
    /\ loop[p].lastProcessedIndex < j /\ j <= loop'[p].lastProcessedIndex
    /\ getUniqueUrl(loop'[p].cards[j]) \in scrapedUrls

\* C18: no click is ever issued on an entry whose canonical key is in the
\* Dedup Set, and a traversal that passes such an entry leaves the Record
\* list and the Dedup Set unchanged, does not click it and sends no
\* updateCount.
C18_SkipsKnownKeys ==
    /\ [][\A e \in OutsNext :
            e.action = "click" => getUniqueUrl(e.url) \notin scrapedUrls]_vars
    /\ [][\A p \in Loops : \A j \in 1..MaxCards :
            C18_Passes(p, j)
            => /\ UNCHANGED <<scrapedData, scrapedUrls>>
               /\ \A e \in OutsNext :
                    /\ e.action # "updateCount"
                    /\ (e.action = "click" /\ e.by = p) => e.count # j - 1]_vars

\* The traversal passed the second entry, which has the key of the Record
\* committed for the first, without a click and went on to scroll.
C18_Witness ==
    \E p \in Loops :
        /\ loop[p].pc = "scroll" /\ loop[p].cards = <<Href(1), Href(2)>>
        /\ loop[p].lastProcessedIndex = 2
        /\ Len(scrapedData) = 1 /\ scrapedData[1].url = Href(1)
        /\ getUniqueUrl(Href(2)) \in scrapedUrls
        /\ scrollToBottom(p) \in Outs
        /\ ~\E e \in Outs : e.action \in {"click", "updateCount"}

\* C19: an invocation that was in flight when stop was issued performs, from
\* then on, no scroll-to-bottom on the feed and no update of its stall counter.
C19_NoPageActionAfterStop ==
    [][\A p \in Loops :
         loop[p].stopLen # -1
         => /\ scrollToBottom(p) \notin OutsNext
            /\ loop'[p].pc # "idle"
               => loop'[p].consecutiveScrollFails = loop[p].consecutiveScrollFails]_vars

\* The step resumes invocation p from wait(SCROLL_WAIT) and no exception is
\* thrown: the end of a cycle.
C20_CycleEnds(p) ==
    /\ loop[p].pc = "scroll"
    /\ \E e \in OutsNext : e.by = p
    /\ log("Fatal error", p) \notin OutsNext

\* The cycle that ends found no more entries after its scroll than before it
\* and no Record was committed while it lasted.
C20_Stalled(p) == visible' <= loop[p].beforeCount /\ ~loop[p].committed

\* C20: the stall counter stays within 0..MAX_SCROLL_FAILS; the end of a cycle
\* adds one to it (and logs the attempt) exactly when the cycle stalled and
\* sets it to 0 otherwise; the run ends in the task that takes it to
\* MAX_SCROLL_FAILS.
C20_StallRule ==
    /\ [](\A p \in Loops : loop[p].consecutiveScrollFails \in 0..MAX_SCROLL_FAILS)
    /\ [][\A p \in Loops :
            C20_CycleEnds(p)
            => /\ log("No new cards after scroll", p) \in OutsNext <=> C20_Stalled(p)
               /\ loop'[p].pc # "idle"
                  => loop'[p].consecutiveScrollFails
                       = IF C20_Stalled(p)
                         THEN loop[p].consecutiveScrollFails + 1 ELSE 0
               /\ (C20_Stalled(p)
                     /\ loop[p].consecutiveScrollFails + 1 = MAX_SCROLL_FAILS)
                  => /\ loop'[p].pc = "idle"
                     /\ log("Max scroll attempts reached, stopping", p)
                          \in OutsNext]_vars

\* The same rule with "committed in that cycle" read as committed by the
\* invocation itself (newDataThisRound), which is what the code tests.
C20_OwnCommitRule ==
    [][\A p \in Loops :
         C20_CycleEnds(p)
         => (log("No new cards after scroll", p) \in OutsNext
              <=> (visible' <= loop[p].beforeCount
                    /\ loop[p].newDataThisRound = 0))]_vars

\* The step resumes the scrape of invocation p after wait(500).
C21_ScrapeResumes(p) == loop[p].pc = "settle" /\ loop'[p].pc = "clickDelay"

\* C21: the scrape skips the entry as unchanged content only with the name it
\* captured before the click, and only if that name is non-empty; the skip
\* appends no Record, adds no key and sends no updateCount; and no Record is
\* ever committed under the non-empty name captured before the click.
C21_NameChangeGuard ==
    [][\A p \in Loops : \A name \in Titles \cup Labels :
         C21_ScrapeResumes(p)
         => /\ logName("Duplicate content detected", name, p) \in OutsNext
               => /\ name = loop[p].previousName /\ name # ""
                  /\ UNCHANGED <<scrapedData, scrapedUrls>>
                  /\ \A e \in OutsNext : e.action # "updateCount"
            /\ (logName("Scraped", name, p) \in OutsNext /\ name # "")
               => name # loop[p].previousName]_vars

\* A scrape was skipped because the view kept the name shown before the click.
C21_Witness ==
    \E p \in Loops : \E name \in (Titles \cup Labels) \ {""} :
        /\ loop[p].pc = "clickDelay" /\ isRunning
        /\ out = <<logName("Duplicate content detected", name, p)>>
        /\ scrapedData = <<>> /\ scrapedUrls = {}

\* The view shows a title that is non-empty, not a placeholder and not the
\* name captured before the click.
C22_ValidTitle(d, previousName) ==
    d.title \notin {"", "Results", "Google Maps", previousName}

\* C22: the promise of waitForDetailPanel is resolved after at most
\* DETAIL_TIMEOUT/interval polls; a poll resolves it true when it finds a
\* valid title together with a marker, the timeout poll resolves it true if
\* it finds a valid title and false otherwise, and every other poll leaves it
\* pending.
C22_Resolves ==
    /\ [](loop[1].elapsed \in {k * interval : k \in 0..(DETAIL_TIMEOUT \div interval)})
    /\ [](loop[1].pc = "detail" => loop[1].elapsed < DETAIL_TIMEOUT)
    /\ [][loop[1].pc = "detail"
           => /\ loop'[1].elapsed = loop[1].elapsed + interval
              /\ IF C22_ValidTitle(loop'[1].view, loop[1].previousName)
                      /\ loop'[1].view.markers
                 THEN loop'[1].pc = "settle" /\ loop'[1].loaded
                 ELSE IF loop'[1].elapsed = DETAIL_TIMEOUT
                 THEN /\ loop'[1].pc = "settle"
                      /\ loop'[1].loaded
                           = C22_ValidTitle(loop'[1].view, loop[1].previousName)
                 ELSE loop'[1].pc = "detail"]_vars
    /\ <>(loop[1].pc = "settle")

\* The updateCount notifications of the task that just ran.
C23_Counts == {k \in DOMAIN out' : out'[k].action = "updateCount"}

\* C23: an updateCount is sent only by the task that ends a scrapeCard call
\* with a commit, once, carrying the Record list length right after the
\* commit; a task that appends a Record sends one; so a call that skips its
\* entry sends none.
C23_OneCountPerCommit ==
    [][/\ \A k \in C23_Counts :
            /\ C23_Counts = {k}
            /\ C21_ScrapeResumes(out'[k].by)
            /\ Len(scrapedData') = Len(scrapedData) + 1
            /\ SubSeq(scrapedData', 1, Len(scrapedData)) = scrapedData
            /\ out'[k].count = Len(scrapedData')
       /\ Len(scrapedData') > Len(scrapedData) => C23_Counts # {}]_vars

\* A scrape committed the first Record and reported a count of 1.
C23_Witness ==
    \E p \in Loops :
        /\ loop[p].pc = "clickDelay"
        /\ out = <<logName("Scraped", "P", p), Ev("updateCount", 1, "", <<>>, p)>>
        /\ Len(scrapedData) = 1 /\ scrapedData[1].name = "P"

\* The Dedup Set holds the canonical keys of the Records and nothing else.
C24_SameKeys ==
    scrapedUrls = {Key(scrapedData[k]) : k \in DOMAIN scrapedData}

\* C24: the Dedup Set is exactly the set of canonical keys of the Records of
\* the Record list, and has as many elements as the list has Records.
C24_SetMatchesList ==
    /\ C24_SameKeys
    /\ Cardinality(scrapedUrls) = Len(scrapedData)

\* C25 as stated: while the run state is not running and no start is
\* accepted, no Record is appended to the Record list.
C25_NoAppendWhileStopped ==
    [][(~isRunning /\ ~isRunning') => Len(scrapedData') <= Len(scrapedData)]_vars

\* C25 amended: while the run state is not running, the Record list grows
\* only by the one Record of a card scrape that was in flight, appended by
\* the task that resumes it after wait(500); an invocation resumed from
\* wait(CLICK_DELAY) or wait(SCROLL_WAIT) in that state clicks no entry, so
\* it appends nothing more; with no invocation in flight the list does not
\* grow at all.  The run flag and the count getStatus reports are the run
\* state and the length of the Record list, which the command leaves alone.
C25_OnlyInFlightScrape ==
    /\ [][(~isRunning /\ Len(scrapedData') > Len(scrapedData))
           => /\ Len(scrapedData') = Len(scrapedData) + 1
              /\ \E p \in Loops : C21_ScrapeResumes(p) /\ ~isRunning']_vars
    /\ [][\A p \in Loops :
            (~isRunning /\ loop[p].pc \in {"clickDelay", "scroll"})
            => ~\E e \in OutsNext : e.action = "click" /\ e.by = p]_vars
    /\ [][\A e \in OutsNext :
            (e.action = "response"
               /\ e.message \in {"isRunning: true", "isRunning: false"})
            => /\ e = sendStatus(isRunning, Len(scrapedData))
               /\ UNCHANGED <<scrapedData, scrapedUrls, isRunning, loop>>]_vars

\* getStatus reports the run flag false and one Record more than the stop
\* response did: the scrape in flight at the stop appended it in between.
C25_Witness ==
    \E p \in Loops :
        /\ out = <<sendStatus(FALSE, Len(scrapedData))>>
        /\ ~isRunning /\ loop[p].pc = "clickDelay"
        /\ loop[p].stopLen # -1 /\ loop[p].stopPc \in {"detail", "settle"}
        /\ Len(scrapedData) = loop[p].stopLen + 1

\* The task that just ran gave a reason for the end of a run.
C26_Reason ==
    \/ sendResponse("stopped", Len(scrapedData)) \in OutsNext
    \/ \E p \in Loops :
         \/ log("Reached end of results", p) \in OutsNext
         \/ log("Max scroll attempts reached, stopping", p) \in OutsNext
         \/ log("Fatal error", p) \in OutsNext

\* C26: with timers that fire and a feed whose visible-entry count changes
\* finitely often, the run state is eventually not running for good; the run
\* state leaves running only by a stop, the end-of-feed exit, the stall exit
\* or a fatal error; and an invocation that ends leaves the run state not
\* running.
C26_Terminates ==
    /\ <>[](~isRunning)
    /\ [][(isRunning /\ ~isRunning') => C26_Reason]_vars
    /\ [][\A p \in Loops : (Active(p) /\ ~Active(p)') => ~isRunning']_vars

====
